---- MODULE Spec2Model ----
(***************************************************************************)
(* Model of the configuration layer (src/config.py) and of the dual-mode   *)
(* persistence manager (src/firebase_manager.py).                          *)
(*                                                                         *)
(* Strings that the program parses are sequences of one-character strings  *)
(* so that int(), float() and str.lower() are computed, not assumed.       *)
(* Floats are exact decimals num/den plus nan and the two infinities; the  *)
(* texts drawn have at most one fractional digit, where binary rounding    *)
(* does not change any comparison with 0 or 1.                             *)
(***************************************************************************)
EXTENDS Integers, Sequences, FiniteSets, TLC

VARIABLES
    env,            \* os.environ: a function from the names that are set to their text
    loadStatus,     \* "notrun" | "ok" | "error": config = ConfigManager() at import of config
    config,         \* <<>> until the global config exists, then <<snapshot>>
    log,            \* records emitted through the logging module, oldest first
    validateCalls,  \* number of validate() calls made
    validateRet,    \* "none" | "True" | "False": what the latest validate() returned
    fmModule,       \* "notimported" | "imported" | "importerror": firebase_manager module
    fmConfig,       \* <<>> or <<snapshot>>: the name config bound in firebase_manager
    libInstalled,   \* whether firebase_admin can be imported in this environment
    FIREBASE_AVAILABLE, \* module global of firebase_manager
    constructed,    \* whether the FirebaseManager instance exists
    client,         \* self.client: "None" or "handle"
    initialized,    \* self.initialized
    mock_data,      \* self._mock_data: function from <<collection, key>> to record
    apps,           \* whether the default app is registered in firebase_admin._apps
    opens,          \* number of connection handles opened by this process
    initCalls,      \* number of initialize() calls made
    initRet,        \* "none" | "True" | "False": what the latest initialize() returned
    lastOp,         \* name of the latest manager operation
    putRet          \* "none" | "ok" | "PersistError": what the latest put() returned

vars == <<env, loadStatus, config, log, validateCalls, validateRet, fmModule, fmConfig,
          libInstalled, FIREBASE_AVAILABLE, constructed, client, initialized, mock_data,
          apps, opens, initCalls, initRet, lastOp, putRet>>

configVars == <<env, loadStatus, config, validateCalls, validateRet>>
managerVars == <<constructed, client, initialized, mock_data, apps, opens, initCalls,
                 initRet, lastOp, putRet>>
moduleVars == <<fmModule, fmConfig, FIREBASE_AVAILABLE>>

----------------------------------------------------------------------------
(* Bounds *)

MaxOverrides == 2
MaxProcOverrides == 1
MaxValidateCalls == 2
MaxInitCalls == 3

----------------------------------------------------------------------------
(* Character-level helpers: what int(), float() and str.lower() do *)

DigitChars == <<"0", "1", "2", "3", "4", "5", "6", "7", "8", "9">>

IsDigit(c) == \E i \in 1..10 : DigitChars[i] = c

DigitVal(c) == (CHOOSE i \in 1..10 : DigitChars[i] = c) - 1

AllDigits(s) == \A i \in 1..Len(s) : IsDigit(s[i])

RECURSIVE DecVal(_)
DecVal(s) == IF s = <<>> THEN 0
             ELSE DecVal(SubSeq(s, 1, Len(s) - 1)) * 10 + DigitVal(s[Len(s)])

RECURSIVE Pow10(_)
Pow10(n) == IF n = 0 THEN 1 ELSE 10 * Pow10(n - 1)

RECURSIVE LStrip(_)
LStrip(s) == IF s # <<>> /\ s[1] = " " THEN LStrip(Tail(s)) ELSE s

RECURSIVE RStrip(_)
RStrip(s) == IF s # <<>> /\ s[Len(s)] = " " THEN RStrip(SubSeq(s, 1, Len(s) - 1)) ELSE s

Strip(s) == RStrip(LStrip(s))

UpperChars == <<"A", "B", "C", "D", "E", "F", "G", "H", "I", "J", "K", "L", "M",
                "N", "O", "P", "Q", "R", "S", "T", "U", "V", "W", "X", "Y", "Z">>
LowerChars == <<"a", "b", "c", "d", "e", "f", "g", "h", "i", "j", "k", "l", "m",
                "n", "o", "p", "q", "r", "s", "t", "u", "v", "w", "x", "y", "z">>

LowerChar(c) == IF \E i \in 1..Len(UpperChars) : UpperChars[i] = c
                THEN LowerChars[CHOOSE i \in 1..Len(UpperChars) : UpperChars[i] = c]
                ELSE c

Lower(s) == [i \in 1..Len(s) |-> LowerChar(s[i])]

HasSign(t) == t # <<>> /\ t[1] \in {"+", "-"}
SignOf(t) == IF t # <<>> /\ t[1] = "-" THEN -1 ELSE 1
Unsigned(t) == IF HasSign(t) THEN Tail(t) ELSE t

\* int(text): surrounding blanks stripped, an optional sign, then one or more digits;
\* anything else raises ValueError (ok = FALSE).
ParseInt(s) ==
    LET t == Strip(s)
        body == Unsigned(t)
    IN IF body # <<>> /\ AllDigits(body)
       THEN [ok |-> TRUE, val |-> SignOf(t) * DecVal(body)]
       ELSE [ok |-> FALSE, val |-> 0]

Fin(n, d) == [kind |-> "fin", num |-> n, den |-> d]
NaN == [kind |-> "nan", num |-> 0, den |-> 1]
PosInf == [kind |-> "inf", num |-> 0, den |-> 1]
NegInf == [kind |-> "-inf", num |-> 0, den |-> 1]

DotAt(body) == IF \E i \in 1..Len(body) : body[i] = "."
               THEN CHOOSE i \in 1..Len(body) : body[i] = "." /\ \A j \in 1..(i - 1) : body[j] # "."
               ELSE 0

\* float(text): surrounding blanks stripped, an optional sign, then nan, inf or
\* infinity in any case, or digits with at most one point and at least one digit;
\* anything else raises ValueError (ok = FALSE).
ParseFloat(s) ==
    LET t == Strip(s)
        body == Unsigned(t)
        low == Lower(body)
        dot == DotAt(body)
        ip == IF dot = 0 THEN body ELSE SubSeq(body, 1, dot - 1)
        fp == IF dot = 0 THEN <<>> ELSE SubSeq(body, dot + 1, Len(body))
    IN IF low = <<"n", "a", "n">> THEN [ok |-> TRUE, val |-> NaN]
       ELSE IF low = <<"i", "n", "f">> \/ low = <<"i", "n", "f", "i", "n", "i", "t", "y">>
            THEN [ok |-> TRUE, val |-> IF SignOf(t) = 1 THEN PosInf ELSE NegInf]
       ELSE IF AllDigits(ip) /\ AllDigits(fp) /\ Len(ip) + Len(fp) > 0
            THEN [ok |-> TRUE,
                  val |-> Fin(SignOf(t) * (DecVal(ip) * Pow10(Len(fp)) + DecVal(fp)),
                              Pow10(Len(fp)))]
       ELSE [ok |-> FALSE, val |-> NaN]

\* a < b on floats (IEEE: every comparison with nan is false)
FloatLess(a, b) ==
    IF a.kind = "nan" \/ b.kind = "nan" THEN FALSE
    ELSE IF a.kind = "-inf" THEN b.kind # "-inf"
    ELSE IF b.kind = "inf" THEN a.kind # "inf"
    ELSE IF a.kind = "inf" \/ b.kind = "-inf" THEN FALSE
    ELSE a.num * b.den < b.num * a.den

IntAsFloat(n) == Fin(n, 1)

\* os.getenv(name, default)
getenv(e, name, default) == IF name \in DOMAIN e THEN e[name] ELSE default

----------------------------------------------------------------------------
(* src/config.py *)

\* The default texts passed to os.getenv, character by character.
DefaultText ==
    [FIREBASE_PROJECT_ID |-> <<"c", "r", "o", "s", "s", "-", "d", "o", "m", "a", "i", "n",
                               "-", "s", "y", "n", "e", "r", "g", "y">>,
     FIREBASE_COLLECTION |-> <<"d", "o", "m", "a", "i", "n", "_", "d", "a", "t", "a">>,
     SYNERGY_COLLECTION |-> <<"d", "e", "t", "e", "c", "t", "e", "d", "_", "s", "y", "n",
                              "e", "r", "g", "i", "e", "s">>,
     FINANCIAL_INTERVAL |-> <<"6", "0">>,
     SOCIAL_INTERVAL |-> <<"3", "0", "0">>,
     IOT_INTERVAL |-> <<"3", "0">>,
     WINDOW_SIZE |-> <<"1", "0">>,
     CORRELATION_THRESHOLD |-> <<"0", ".", "7">>,
     MIN_CLUSTER_SIZE |-> <<"3">>,
     ANOMALY_THRESHOLD |-> <<"2", ".", "5">>,
     BATCH_SIZE |-> <<"1", "0", "0">>,
     ENABLE_REAL_TIME |-> <<"t", "r", "u", "e">>,
     LOG_LEVEL |-> <<"I", "N", "F", "O">>]

Raised == [ok |-> FALSE, val |-> <<>>]
Returned(v) == [ok |-> TRUE, val |-> v]

\* FirebaseConfig.from_env: three strings, no conversion
FirebaseConfig_from_env(e) ==
    Returned([project_id |-> getenv(e, "FIREBASE_PROJECT_ID", DefaultText.FIREBASE_PROJECT_ID),
              collection_name |-> getenv(e, "FIREBASE_COLLECTION", DefaultText.FIREBASE_COLLECTION),
              synergy_collection |-> getenv(e, "SYNERGY_COLLECTION", DefaultText.SYNERGY_COLLECTION)])

\* DomainConfig.from_env with the ValueError of WINDOW_SIZE caught and the default kept
DomainConfig_from_env_SwallowsWindow(e) ==
    LET fi == ParseInt(getenv(e, "FINANCIAL_INTERVAL", DefaultText.FINANCIAL_INTERVAL))
        si == ParseInt(getenv(e, "SOCIAL_INTERVAL", DefaultText.SOCIAL_INTERVAL))
        ii == ParseInt(getenv(e, "IOT_INTERVAL", DefaultText.IOT_INTERVAL))
        ws == ParseInt(getenv(e, "WINDOW_SIZE", DefaultText.WINDOW_SIZE))
        ct == ParseFloat(getenv(e, "CORRELATION_THRESHOLD", DefaultText.CORRELATION_THRESHOLD))
    IN IF fi.ok /\ si.ok /\ ii.ok /\ ct.ok
       THEN Returned([financial_interval |-> fi.val,
                      social_interval |-> si.val,
                      iot_interval |-> ii.val,
                      window_size |-> IF ws.ok THEN ws.val ELSE 10,
                      correlation_threshold |-> ct.val])
       ELSE Raised

\* DomainConfig.from_env: a ValueError of int() or float() propagates
DomainConfig_from_env(e) ==
    LET fi == ParseInt(getenv(e, "FINANCIAL_INTERVAL", DefaultText.FINANCIAL_INTERVAL))
        si == ParseInt(getenv(e, "SOCIAL_INTERVAL", DefaultText.SOCIAL_INTERVAL))
        ii == ParseInt(getenv(e, "IOT_INTERVAL", DefaultText.IOT_INTERVAL))
        ws == ParseInt(getenv(e, "WINDOW_SIZE", DefaultText.WINDOW_SIZE))
        ct == ParseFloat(getenv(e, "CORRELATION_THRESHOLD", DefaultText.CORRELATION_THRESHOLD))
    IN IF fi.ok /\ si.ok /\ ii.ok /\ ws.ok /\ ct.ok
       THEN Returned([financial_interval |-> fi.val,
                      social_interval |-> si.val,
                      iot_interval |-> ii.val,
                      window_size |-> ws.val,
                      correlation_threshold |-> ct.val])
       ELSE Raised

\* SynergyConfig.from_env reading min_cluster_size from the name BATCH_SIZE
SynergyConfig_from_env_WrongName(e) ==
    LET mc == ParseInt(getenv(e, "BATCH_SIZE", DefaultText.MIN_CLUSTER_SIZE))
        at == ParseFloat(getenv(e, "ANOMALY_THRESHOLD", DefaultText.ANOMALY_THRESHOLD))
        bs == ParseInt(getenv(e, "BATCH_SIZE", DefaultText.BATCH_SIZE))
        rt == Lower(getenv(e, "ENABLE_REAL_TIME", DefaultText.ENABLE_REAL_TIME))
                 = <<"t", "r", "u", "e">>
    IN IF mc.ok /\ at.ok /\ bs.ok
       THEN Returned([min_cluster_size |-> mc.val,
                      anomaly_threshold |-> at.val,
                      batch_size |-> bs.val,
                      enable_real_time |-> rt])
       ELSE Raised

\* SynergyConfig.from_env
SynergyConfig_from_env(e) ==
    LET mc == ParseInt(getenv(e, "MIN_CLUSTER_SIZE", DefaultText.MIN_CLUSTER_SIZE))
        at == ParseFloat(getenv(e, "ANOMALY_THRESHOLD", DefaultText.ANOMALY_THRESHOLD))
        bs == ParseInt(getenv(e, "BATCH_SIZE", DefaultText.BATCH_SIZE))
        rt == Lower(getenv(e, "ENABLE_REAL_TIME", DefaultText.ENABLE_REAL_TIME))
                 = <<"t", "r", "u", "e">>
    IN IF mc.ok /\ at.ok /\ bs.ok
       THEN Returned([min_cluster_size |-> mc.val,
                      anomaly_threshold |-> at.val,
                      batch_size |-> bs.val,
                      enable_real_time |-> rt])
       ELSE Raised

\* ConfigManager.__init__: the three groups in order, then the log level
ConfigManager_init(e) ==
    LET fb == FirebaseConfig_from_env(e)
        dm == DomainConfig_from_env(e)
        sy == SynergyConfig_from_env(e)
    IN IF fb.ok /\ dm.ok /\ sy.ok
       THEN Returned([firebase |-> fb.val,
                      domains |-> dm.val,
                      synergy |-> sy.val,
                      log_level |-> getenv(e, "LOG_LEVEL", DefaultText.LOG_LEVEL)])
       ELSE Raised

\* validations with the upper bound of the threshold included (<= 1)
validations_InclusiveUpper(c) ==
    << [condition |-> c.domains.financial_interval > 0,
        message |-> "Financial interval must be positive"],
       [condition |-> c.domains.social_interval > 0,
        message |-> "Social interval must be positive"],
       [condition |-> c.domains.iot_interval > 0,
        message |-> "IoT interval must be positive"],
       [condition |-> FloatLess(IntAsFloat(0), c.domains.correlation_threshold)
                      /\ (FloatLess(c.domains.correlation_threshold, IntAsFloat(1))
                          \/ c.domains.correlation_threshold = IntAsFloat(1)),
        message |-> "Correlation threshold must be between 0 and 1"],
       [condition |-> c.synergy.min_cluster_size > 1,
        message |-> "Min cluster size must be > 1"] >>

\* validations with the message of the first pair copied into the second
validations_CopiedMessage(c) ==
    << [condition |-> c.domains.financial_interval > 0,
        message |-> "Financial interval must be positive"],
       [condition |-> c.domains.social_interval > 0,
        message |-> "Financial interval must be positive"],
       [condition |-> c.domains.iot_interval > 0,
        message |-> "IoT interval must be positive"],
       [condition |-> FloatLess(IntAsFloat(0), c.domains.correlation_threshold)
                      /\ FloatLess(c.domains.correlation_threshold, IntAsFloat(1)),
        message |-> "Correlation threshold must be between 0 and 1"],
       [condition |-> c.synergy.min_cluster_size > 1,
        message |-> "Min cluster size must be > 1"] >>

\* The list of (condition, message) pairs built by validate()
validations(c) ==
    << [condition |-> c.domains.financial_interval > 0,
        message |-> "Financial interval must be positive"],
       [condition |-> c.domains.social_interval > 0,
        message |-> "Social interval must be positive"],
       [condition |-> c.domains.iot_interval > 0,
        message |-> "IoT interval must be positive"],
       [condition |-> FloatLess(IntAsFloat(0), c.domains.correlation_threshold)
                      /\ FloatLess(c.domains.correlation_threshold, IntAsFloat(1)),
        message |-> "Correlation threshold must be between 0 and 1"],
       [condition |-> c.synergy.min_cluster_size > 1,
        message |-> "Min cluster size must be > 1"] >>

LogRecord(level, message) == [level |-> level, message |-> message]

\* validate without the early return: every false condition is logged
validate_LogsAll(c) ==
    LET v == validations(c)
        F[i \in 0..Len(v)] ==
            IF i = 0 THEN <<>>
            ELSE IF v[i].condition THEN F[i - 1]
            ELSE Append(F[i - 1],
                        LogRecord("ERROR", "Config validation failed: " \o v[i].message))
    IN [ret |-> F[Len(v)] = <<>>, logged |-> F[Len(v)]]

\* ConfigManager.validate: the loop returns at the first condition that is false,
\* after logging its message at error level
validate(c) ==
    LET v == validations(c)
        bad == {i \in 1..Len(v) : ~v[i].condition}
    IN IF bad = {}
       THEN [ret |-> TRUE, logged |-> <<>>]
       ELSE LET first == CHOOSE i \in bad : \A j \in bad : i <= j
            IN [ret |-> FALSE,
                logged |-> <<LogRecord("ERROR", "Config validation failed: " \o v[first].message)>>]

----------------------------------------------------------------------------
(* The environments drawn: each name is absent or holds one of a few texts *)

IntTexts == { <<"5">>, <<"1">>, <<"0">>, <<"-", "1">>, <<" ", "2">>, <<"a">>, <<"1", ".", "5">> }
FloatTexts == { <<"0", ".", "5">>, <<"0">>, <<"1">>, <<"1", ".", "5">>, <<"-", "0", ".", "5">>,
                <<"n", "a", "n">>, <<"I", "n", "f">>, <<"x">> }
BoolTexts == { <<"T", "r", "u", "e">>, <<"n", "o">> }
NameTexts == { <<"p">> }

IntNames == {"FINANCIAL_INTERVAL", "SOCIAL_INTERVAL", "IOT_INTERVAL", "WINDOW_SIZE",
             "MIN_CLUSTER_SIZE", "BATCH_SIZE"}
FloatNames == {"CORRELATION_THRESHOLD", "ANOMALY_THRESHOLD"}
BoolNames == {"ENABLE_REAL_TIME"}
StringNames == {"FIREBASE_PROJECT_ID", "FIREBASE_COLLECTION", "SYNERGY_COLLECTION", "LOG_LEVEL"}
Names == IntNames \cup FloatNames \cup BoolNames \cup StringNames

TextsOf(name) == IF name \in IntNames THEN IntTexts
                 ELSE IF name \in FloatNames THEN FloatTexts
                 ELSE IF name \in BoolNames THEN BoolTexts
                 ELSE NameTexts

RECURSIVE EnvsOver(_)
EnvsOver(S) ==
    IF S = {} THEN { <<>> }
    ELSE LET n == CHOOSE x \in S : TRUE
         IN { (n :> t) @@ e : t \in TextsOf(n), e \in EnvsOver(S \ {n}) }

Envs(k) == UNION { EnvsOver(S) : S \in { T \in SUBSET Names : Cardinality(T) <= k } }

----------------------------------------------------------------------------
(* Configuration: import of config, and validate() *)

NoSnapshot == <<>>

\* config = ConfigManager() at module level: an exception leaves no global
ImportConfig ==
    /\ loadStatus = "notrun"
    /\ LET r == ConfigManager_init(env)
       IN IF r.ok
          THEN loadStatus' = "ok" /\ config' = <<r.val>>
          ELSE loadStatus' = "error" /\ config' = NoSnapshot
    /\ UNCHANGED <<env, log, validateCalls, validateRet, libInstalled>>
    /\ UNCHANGED moduleVars
    /\ UNCHANGED managerVars

\* config.validate()
Validate ==
    /\ loadStatus = "ok"
    /\ validateCalls < MaxValidateCalls
    /\ LET r == validate(config[1])
       IN /\ log' = log \o r.logged
          /\ validateRet' = IF r.ret THEN "True" ELSE "False"
    /\ validateCalls' = validateCalls + 1
    /\ UNCHANGED <<env, loadStatus, config, libInstalled>>
    /\ UNCHANGED moduleVars
    /\ UNCHANGED managerVars

InitWith(k) ==
    /\ env \in Envs(k)
    /\ loadStatus = "notrun"
    /\ config = NoSnapshot
    /\ log = <<>>
    /\ validateCalls = 0
    /\ validateRet = "none"
    /\ fmModule = "notimported"
    /\ fmConfig = NoSnapshot
    /\ libInstalled \in BOOLEAN
    /\ FIREBASE_AVAILABLE = FALSE
    /\ constructed = FALSE
    /\ client = "None"
    /\ initialized = FALSE
    /\ mock_data = <<>>
    /\ apps = FALSE
    /\ opens = 0
    /\ initCalls = 0
    /\ initRet = "none"
    /\ lastOp = "none"
    /\ putRet = "none"

ConfigInit == InitWith(MaxOverrides) /\ libInstalled = FALSE

ConfigNext == ImportConfig \/ Validate

ConfigSpec == ConfigInit /\ [][ConfigNext]_vars

----------------------------------------------------------------------------
(* What the specification says of the texts and of the snapshot, stated   *)
(* without the program's parsers.                                          *)

\* The texts that denote an integer, and the integer each denotes
IntLiterals == { <<"5">>, <<"1">>, <<"0">>, <<"-", "1">>, <<" ", "2">> }
IntMeaning(t) == CASE t = <<"5">> -> 5
                   [] t = <<"1">> -> 1
                   [] t = <<"0">> -> 0
                   [] t = <<"-", "1">> -> -1
                   [] t = <<" ", "2">> -> 2

\* The texts that float() accepts; those that denote a real, in tenths
FloatLiterals == FloatTexts \ { <<"x">> }
RealLiterals == FloatLiterals \ { <<"n", "a", "n">>, <<"I", "n", "f">> }
TenthsMeaning(t) == CASE t = <<"0", ".", "5">> -> 5
                      [] t = <<"0">> -> 0
                      [] t = <<"1">> -> 10
                      [] t = <<"1", ".", "5">> -> 15
                      [] t = <<"-", "0", ".", "5">> -> -5

Coercible(name, t) == IF name \in IntNames THEN t \in IntLiterals
                      ELSE IF name \in FloatNames THEN t \in FloatLiterals
                      ELSE TRUE

\* The data-model constraint of each field, on the text of its override
SatisfiesConstraint(name, t) ==
    IF name = "MIN_CLUSTER_SIZE" THEN t \in IntLiterals /\ IntMeaning(t) > 1
    ELSE IF name \in IntNames THEN t \in IntLiterals /\ IntMeaning(t) > 0
    ELSE IF name = "CORRELATION_THRESHOLD"
         THEN t \in RealLiterals /\ TenthsMeaning(t) > 0 /\ TenthsMeaning(t) < 10
    ELSE IF name = "ANOMALY_THRESHOLD" THEN t \in RealLiterals /\ TenthsMeaning(t) > 0
    ELSE TRUE

ValidOverrides(e) == \A n \in DOMAIN e : Coercible(n, e[n]) /\ SatisfiesConstraint(n, e[n])

RuleNames == <<"financial_interval", "social_interval", "iot_interval",
               "correlation_threshold", "min_cluster_size">>

RuleMessage ==
    [financial_interval |-> "Financial interval must be positive",
     social_interval |-> "Social interval must be positive",
     iot_interval |-> "IoT interval must be positive",
     correlation_threshold |-> "Correlation threshold must be between 0 and 1",
     min_cluster_size |-> "Min cluster size must be > 1"]

InOpenUnit(v) == v.kind = "fin" /\ v.num > 0 /\ v.num < v.den

PositiveReal(v) == v.kind = "fin" /\ v.num > 0

RuleHolds(c, rule) ==
    CASE rule = "financial_interval" -> c.domains.financial_interval > 0
      [] rule = "social_interval" -> c.domains.social_interval > 0
      [] rule = "iot_interval" -> c.domains.iot_interval > 0
      [] rule = "correlation_threshold" -> InOpenUnit(c.domains.correlation_threshold)
      [] rule = "min_cluster_size" -> c.synergy.min_cluster_size > 1

ViolatedRules(c) == { i \in 1..Len(RuleNames) : ~RuleHolds(c, RuleNames[i]) }

FirstViolated(c) == CHOOSE i \in ViolatedRules(c) : \A j \in ViolatedRules(c) : i <= j

ErrorOf(i) == LogRecord("ERROR", "Config validation failed: " \o RuleMessage[RuleNames[i]])

\* The documented defaults, as values
DocumentedDefault(c, name) ==
    CASE name = "FINANCIAL_INTERVAL" -> c.domains.financial_interval = 60
      [] name = "SOCIAL_INTERVAL" -> c.domains.social_interval = 300
      [] name = "IOT_INTERVAL" -> c.domains.iot_interval = 30
      [] name = "WINDOW_SIZE" -> c.domains.window_size = 10
      [] name = "CORRELATION_THRESHOLD" -> c.domains.correlation_threshold = Fin(7, 10)
      [] name = "MIN_CLUSTER_SIZE" -> c.synergy.min_cluster_size = 3
      [] name = "ANOMALY_THRESHOLD" -> c.synergy.anomaly_threshold = Fin(25, 10)
      [] name = "BATCH_SIZE" -> c.synergy.batch_size = 100
      [] name = "ENABLE_REAL_TIME" -> c.synergy.enable_real_time = TRUE
      [] name = "FIREBASE_PROJECT_ID" -> c.firebase.project_id = DefaultText.FIREBASE_PROJECT_ID
      [] name = "FIREBASE_COLLECTION" -> c.firebase.collection_name = DefaultText.FIREBASE_COLLECTION
      [] name = "SYNERGY_COLLECTION" -> c.firebase.synergy_collection = DefaultText.SYNERGY_COLLECTION
      [] name = "LOG_LEVEL" -> c.log_level = DefaultText.LOG_LEVEL

----------------------------------------------------------------------------
(* Claims about the configuration layer, checked under ConfigSpec *)

\* C2: validate() returns true if and only if the five rules hold together on the
\* snapshot: the three intervals > 0, correlation_threshold strictly between 0 and 1,
\* and min_cluster_size > 1.
C2_ValidateIffAllRules ==
    validateRet # "none" =>
        ((validateRet = "True") <=> (\A i \in 1..Len(RuleNames) : RuleHolds(config[1], RuleNames[i])))

\* validate() has rejected a snapshot whose only fault is correlation_threshold = 1
C2_Witness ==
    /\ validateRet = "False"
    /\ config[1].domains.correlation_threshold = Fin(1, 1)
    /\ ViolatedRules(config[1]) = {4}

\* C3: when exactly one of the five rules is violated, validate() returns false and
\* every call logs one entry, the message of that rule, and nothing else.
C3_SingleViolationLogsItsMessage ==
    (validateRet # "none" /\ Cardinality(ViolatedRules(config[1])) = 1) =>
        /\ validateRet = "False"
        /\ Len(log) = validateCalls
        /\ \A k \in 1..Len(log) : log[k] = ErrorOf(FirstViolated(config[1]))

\* validate() has run on a snapshot whose only fault is social_interval = 0
C3_Witness ==
    /\ validateRet = "False"
    /\ ViolatedRules(config[1]) = {2}
    /\ Len(log) = 1

\* C5: the import of config fails, and leaves no snapshot, exactly when some integer
\* or real override that is set cannot be coerced; a name that is absent never makes
\* it fail and yields the documented default.
C5_LoadFailsIffUncoercible ==
    loadStatus # "notrun" =>
        /\ (loadStatus = "error") <=> (\E n \in DOMAIN env : ~Coercible(n, env[n]))
        /\ (loadStatus = "error") => config = NoSnapshot
        /\ (loadStatus = "ok") =>
              /\ Len(config) = 1
              /\ \A n \in Names \ DOMAIN env : DocumentedDefault(config[1], n)

\* the import has failed on WINDOW_SIZE = "1.5", every other override being coercible
C5_Witness ==
    /\ loadStatus = "error"
    /\ "WINDOW_SIZE" \in DOMAIN env
    /\ env["WINDOW_SIZE"] = <<"1", ".", "5">>
    /\ \A n \in DOMAIN env \ {"WINDOW_SIZE"} : Coercible(n, env[n])

\* C6: when every override that is set coerces and satisfies the constraint of its
\* field, the import of config succeeds and validate() on the snapshot returns true.
C6_ValidOverridesLoadAndValidate ==
    ValidOverrides(env) =>
        /\ loadStatus # "error"
        /\ validateRet # "False"

\* a snapshot loaded from two valid overrides has been validated
C6_Witness ==
    /\ ValidOverrides(env)
    /\ Cardinality(DOMAIN env) = 2
    /\ "BATCH_SIZE" \in DOMAIN env
    /\ loadStatus = "ok"
    /\ validateRet = "True"

\* C9: a validate() call changes nothing but the log and its return value; it returns
\* True and logs nothing when no rule is violated, and otherwise returns False and
\* logs one entry, the message of the first violated rule in the order of the table.
C9_ValidateFrame ==
    [][validateCalls' # validateCalls =>
          /\ config' = config /\ env' = env /\ loadStatus' = loadStatus
          /\ IF ViolatedRules(config[1]) = {}
             THEN validateRet' = "True" /\ log' = log
             ELSE validateRet' = "False"
                  /\ log' = Append(log, ErrorOf(FirstViolated(config[1])))]_vars

\* validate() has run on a snapshot that violates two rules or more
C9_Witness ==
    /\ validateRet = "False"
    /\ Cardinality(ViolatedRules(config[1])) >= 2
    /\ validateCalls = 2

\* C10: every snapshot that validate() accepts satisfies every constraint of the data
\* model, window_size > 0, anomaly_threshold > 0 and batch_size > 0 included.
C10_ValidatedSatisfiesDataModel ==
    validateRet = "True" =>
        /\ \A i \in 1..Len(RuleNames) : RuleHolds(config[1], RuleNames[i])
        /\ config[1].domains.window_size > 0
        /\ PositiveReal(config[1].synergy.anomaly_threshold)
        /\ config[1].synergy.batch_size > 0

----------------------------------------------------------------------------
(* src/firebase_manager.py *)

MockWarning == LogRecord("WARNING", "Running in mock mode - no Firebase connection")
ImportWarning == LogRecord("WARNING", "firebase_admin not available. Using mock mode.")

\* Module body: try: import firebase_admin ... except ImportError, then
\* from config import config, which runs config's module body if it has not run
\* (or failed before) and binds the global without calling validate().
ImportFirebaseManager ==
    /\ fmModule = "notimported"
    /\ log' = IF libInstalled THEN log ELSE Append(log, ImportWarning)
    /\ LET r == IF loadStatus = "ok" THEN Returned(config[1]) ELSE ConfigManager_init(env)
       IN IF r.ok
          THEN /\ loadStatus' = "ok"
               /\ config' = <<r.val>>
               /\ fmConfig' = <<r.val>>
               /\ fmModule' = "imported"
               /\ FIREBASE_AVAILABLE' = libInstalled
          ELSE /\ loadStatus' = "error"
               /\ config' = NoSnapshot
               /\ fmConfig' = NoSnapshot
               /\ fmModule' = "importerror"
               /\ FIREBASE_AVAILABLE' = FALSE
    /\ UNCHANGED <<env, validateCalls, validateRet, libInstalled>>
    /\ UNCHANGED managerVars

\* FirebaseManager.__init__
Construct ==
    /\ fmModule = "imported"
    /\ ~constructed
    /\ constructed' = TRUE
    /\ client' = "None"
    /\ initialized' = FALSE
    /\ mock_data' = <<>>
    /\ lastOp' = "construct"
    /\ UNCHANGED <<apps, opens, initCalls, initRet, putRet, log, libInstalled>>
    /\ UNCHANGED configVars
    /\ UNCHANGED moduleVars

\* The lifecycle state of the specification, read off the fields of the manager:
\* the class has no field for Failed, which is an initialize() that returned False.
State ==
    IF initialized THEN (IF client = "None" THEN "Mock" ELSE "Live")
    ELSE IF initRet = "False" THEN "Failed"
    ELSE "Uninitialized"

CredentialPaths == {"None", "service_account.json"}

\* InitializeMock without the assignment of line 41
InitializeMock_FlagNotSet(credential_path) ==
    /\ ~FIREBASE_AVAILABLE
    /\ log' = Append(log, MockWarning)
    /\ initRet' = "True"
    /\ UNCHANGED <<client, initialized, apps, opens>>

\* initialize(), lines 39-42: the client library is absent
InitializeMock(credential_path) ==
    /\ ~FIREBASE_AVAILABLE
    /\ log' = Append(log, MockWarning)
    /\ initialized' = TRUE
    /\ initRet' = "True"
    /\ UNCHANGED <<client, apps, opens>>

\* The manager is bound to the open handle and reports success (Live)
BindClient ==
    /\ client' = "handle"
    /\ initialized' = TRUE
    /\ initRet' = "True"

\* A connectivity or credential error: logged, Mock mode, success
FallBackToMock(outcome) ==
    /\ client' = "None"
    /\ initialized' = TRUE
    /\ initRet' = "True"
    /\ log' = Append(log, LogRecord("ERROR", "Firebase unavailable: " \o outcome))

\* Any other error: InitError, the manager is Failed
FailInitialize ==
    /\ client' = "None"
    /\ initialized' = FALSE
    /\ initRet' = "False"
    /\ log' = Append(log, LogRecord("ERROR", "Firebase initialization failed"))

\* initialize(), lines 44-46: the default app is registered, so get_app() returns
\* it and no app is opened
InitializeReuse(credential_path) ==
    /\ FIREBASE_AVAILABLE
    /\ apps
    /\ BindClient
    /\ UNCHANGED <<log, apps, opens>>

OpenOutcomes == {"opened", "connectivity", "credential", "unexpected"}

\* initialize(), lines 47-50: no default app is registered, so one is opened from
\* the credential (the certificate at credential_path, or the default credential)
InitializeOpen(credential_path, outcome) ==
    /\ FIREBASE_AVAILABLE
    /\ ~apps
    /\ IF outcome = "opened"
       THEN /\ apps' = TRUE
            /\ opens' = opens + 1
            /\ BindClient
            /\ log' = log
       ELSE IF outcome \in {"connectivity", "credential"}
       THEN FallBackToMock(outcome) /\ UNCHANGED <<apps, opens>>
       ELSE FailInitialize /\ UNCHANGED <<apps, opens>>

\* FirebaseManager.initialize(credential_path)
Initialize(credential_path) ==
    /\ constructed
    /\ initCalls < MaxInitCalls
    /\ \/ InitializeMock(credential_path)
       \/ InitializeReuse(credential_path)
       \/ \E outcome \in OpenOutcomes : InitializeOpen(credential_path, outcome)
    /\ initCalls' = initCalls + 1
    /\ lastOp' = "initialize"
    /\ UNCHANGED <<constructed, mock_data, putRet, libInstalled>>
    /\ UNCHANGED configVars
    /\ UNCHANGED moduleVars

Collections == {"domain_data"}
Keys == {"k1"}
Records == {"r1", "r2"}

MockWrite(store, collection, key, record) ==
    (<<collection, key>> :> record) @@ store

\* put(collection, key, record) while Failed: PersistError
PutFailed(collection, key, record) ==
    /\ State = "Failed"
    /\ putRet' = "PersistError"
    /\ UNCHANGED <<client, mock_data, log>>

\* put in Mock mode: last write wins in the in-memory mapping
PutMock(collection, key, record) ==
    /\ State = "Mock"
    /\ mock_data' = MockWrite(mock_data, collection, key, record)
    /\ putRet' = "ok"
    /\ UNCHANGED <<client, log>>

\* put in Live mode: written through, or a connectivity error degrades the manager
\* to Mock, logs it at error level and retries the write against the mock store
PutLive(collection, key, record, connected) ==
    /\ State = "Live"
    /\ IF connected
       THEN UNCHANGED <<client, mock_data, log>>
       ELSE /\ client' = "None"
            /\ log' = Append(log, LogRecord("ERROR", "Connectivity lost: degraded to mock mode"))
            /\ mock_data' = MockWrite(mock_data, collection, key, record)
    /\ putRet' = "ok"

Put(collection, key, record) ==
    /\ constructed
    /\ \/ PutFailed(collection, key, record)
       \/ PutMock(collection, key, record)
       \/ \E connected \in BOOLEAN : PutLive(collection, key, record, connected)
    /\ lastOp' = "put"
    /\ UNCHANGED <<constructed, initialized, apps, opens, initCalls, initRet, libInstalled>>
    /\ UNCHANGED configVars
    /\ UNCHANGED moduleVars

\* The process environments drawn for the manager: overrides of two validated fields
ProcNames == {"FINANCIAL_INTERVAL", "MIN_CLUSTER_SIZE"}

Init == InitWith(MaxProcOverrides) /\ DOMAIN env \subseteq ProcNames

Next ==
    \/ ImportConfig
    \/ Validate
    \/ ImportFirebaseManager
    \/ Construct
    \/ \E cp \in CredentialPaths : Initialize(cp)
    \/ \E c \in Collections, k \in Keys, r \in Records : Put(c, k, r)

Spec == Init /\ [][Next]_vars

----------------------------------------------------------------------------
(* Claims about the persistence manager, checked under Spec *)

\* C1: when the client library is absent, every initialize() call returns True and
\* leaves the manager initialized with no live client, that is in Mock mode, never
\* Uninitialized or Failed.
C1_AbsentLibraryInitializesMock ==
    (fmModule = "imported" /\ ~FIREBASE_AVAILABLE /\ initRet # "none") =>
        /\ initRet = "True"
        /\ initialized
        /\ client = "None"
        /\ State = "Mock"

\* initialize() has just been called a second time with the library absent
C1_Witness ==
    /\ fmModule = "imported"
    /\ ~FIREBASE_AVAILABLE
    /\ initCalls = 2
    /\ lastOp = "initialize"

\* C4: the snapshot bound in firebase_manager is never one that fails validation.
C4_OnlyValidSnapshotHandedOver ==
    fmConfig # NoSnapshot =>
        \A i \in 1..Len(RuleNames) : RuleHolds(fmConfig[1], RuleNames[i])

\* C7: an initialize() call made while the default handle is open reuses it and opens
\* none, at most one handle is ever opened, and an initialize() call that follows
\* another leaves the manager in the state the first one left it in.
C7_InitializeIdempotent ==
    [][initCalls' = initCalls + 1 =>
          /\ apps => (opens' = opens /\ client' = "handle")
          /\ opens' <= 1
          /\ lastOp = "initialize" => State' = State]_vars

\* C8: the lifecycle only moves forward: a manager that has left Uninitialized never
\* returns to it, and a manager in Mock mode never becomes Live.
C8_LifecycleOnlyForward ==
    [][/\ State # "Uninitialized" => State' # "Uninitialized"
       /\ State = "Mock" => State' # "Live"]_vars

====
